---- MODULE Spec2Model ----
(***************************************************************************)
(* Climate monitor (CSE321_project3_brettsit_main.cpp).                    *)
(*                                                                         *)
(* Four concurrent contexts share the globals of the program:              *)
(*   - main(): the keypad row scan loop, which selects the row of a key,   *)
(*   - isr_c0..isr_c3: the column interrupt handlers,                      *)
(*   - update_lcd(): the display thread t_lcd (with get_input inlined),    *)
(*   - monitor_state(): the monitor thread t_monitor (with alert inlined). *)
(* A handler runs to completion; the threads are cut at every point where  *)
(* a shared global is read or written, so a handler or the other thread    *)
(* can run between any two such points.                                    *)
(*                                                                         *)
(* float values (temp_min_f, temp_max_f, fahrenheit) are kept in tenths of *)
(* a degree, which represents c*1.8+32 exactly for an integer c.           *)
(***************************************************************************)
EXTENDS Integers, Sequences, FiniteSets

\* ---------------------------------------------------------------- constants
BOUNCE == 1000
MAX_INPUT == 9
TEMP_MIN_C == 0
TEMP_MIN_F == 32
TEMP_MAX_C == 50
TEMP_MAX_F == 122
HUMIDITY_MIN == 20
HUMIDITY_MAX == 95
FAHRENHEIT == FALSE
CELCIUS == TRUE
IDLE == 0
INPUT == 1
MONITOR == 2
ALERT == 3
TIMEOUT_MS == 5000
\* EventQueue queue(32 * EVENTS_EVENT_SIZE): the events the queue has room for
QueueSlots == 32
INT_MAX == 32767 * 65536 + 65535

\* ------------------------------------------------------------------- bounds
\* value of input_stage at which the operator stops pressing A
MaxStage == 4

\* The environments the program is checked in.  keys: the keys the operator
\* uses, as <<row, column>>; entries: what the operator types into one
\* prompt (every prefix included); readings: the values the sensor returns,
\* as <<celsius, humidity>>.

\* A, B, D, the digits 4 and 0, the unassigned key #
EnvMain ==
    [keys |-> {<<0, 3>>, <<1, 3>>, <<3, 3>>, <<1, 0>>, <<3, 1>>, <<3, 2>>},
     entries |-> {<<>>, <<4>>, <<4, 0>>},
     readings |-> {<<11, 40>>, <<45, 30>>}]

\* A, C, D, the digits 4 and 0 and the key #, with a reading above 40 C
EnvClear ==
    [keys |-> {<<0, 3>>, <<2, 3>>, <<3, 3>>, <<1, 0>>, <<3, 1>>, <<3, 2>>},
     entries |-> EnvMain.entries,
     readings |-> {<<45, 30>>}]

\* every key of the rows 1 and 3: 4 5 6 B and * 0 # D
EnvScan ==
    [keys |-> {1, 3} \X (0..3),
     entries |-> EnvMain.entries,
     readings |-> {}]

\* A, C, D, the digits 4 and 0, the key #
EnvRender ==
    [keys |-> {<<0, 3>>, <<2, 3>>, <<3, 3>>, <<1, 0>>, <<3, 1>>, <<3, 2>>},
     entries |-> EnvMain.entries,
     readings |-> {<<11, 40>>}]

\* longest entry of digits 4 the operator types without confirming it
MaxFill == 10

\* the same operator, who also types up to MaxFill digits 4 into a prompt
EnvFill ==
    [keys |-> EnvMain.keys,
     entries |-> EnvMain.entries \cup {[i \in 1..n |-> 4] : n \in 1..MaxFill},
     readings |-> EnvMain.readings]

\* B, C and D only, with readings on either side of the thresholds
EnvBreach ==
    [keys |-> {<<1, 3>>, <<2, 3>>, <<3, 3>>},
     entries |-> {<<>>},
     readings |-> {5, 25, 45} \X {25, 50, 90}]

\* the Celsius, Fahrenheit and humidity bounds of validated sessions
SessionC == {0, 10, 40, 50}
SessionF == {32, 50, 51, 104, 122}
SessionH == {20, 30, 80, 95}

\* what the operator confirms with A
Confirmed == {<<>>, <<4, 0>>}

VARIABLES
    mode, unit,
    input_stage, input_len, input_str, input_modified,
    temp_min_c, temp_max_c, temp_min_f, temp_max_f,
    humidity_min, humidity_max,
    celcius, fahrenheit, humidity,
    lcd,            \* what the display shows
    lcd_pc,         \* position of the display thread
    current_stage,  \* loop variable of update_lcd
    mon_pc,         \* position of the monitor thread
    \* history variables (never read by the program)
    changed,        \* a threshold field was altered since the session began
    entered,        \* values parsed at the end of each stage of the session
    sess_c,         \* every temperature stage of the session ran in Celsius
    typed,          \* digits delivered in INPUT since the last D, A or C
    ackd,           \* B was pressed in ALERT and D has not been pressed since
    \* the scan loop of main()
    row,            \* the row that is energized
    main_pc,        \* position of the scan loop
    queued,         \* flash calls waiting in the event queue
    batch,          \* flash calls that the running dispatch still has to make
    since_kick,     \* milliseconds slept since the last watchdog.kick()
    \* history variables of single specifications
    shown,          \* the buffer contents last printed under the prompt
    toggled         \* <<unit, thresholds>> before the C press just handled

prog == <<mode, unit, input_stage, input_len, input_str,
          input_modified, temp_min_c, temp_max_c, temp_min_f, temp_max_f,
          humidity_min, humidity_max, celcius, fahrenheit, humidity,
          lcd, lcd_pc, current_stage, mon_pc>>
hist == <<changed, entered, sess_c, typed, ackd>>
scan == <<row, main_pc, queued, batch, since_kick>>
vars == <<prog, hist, scan, shown, toggled>>

thresholds == <<temp_min_c, temp_max_c, temp_min_f, temp_max_f,
                humidity_min, humidity_max>>
reading == <<celcius, fahrenheit, humidity>>
session == <<input_stage, input_len, input_str, input_modified>>
prog_but_lcd_pc == <<mode, unit, session, thresholds, reading,
                     lcd, current_stage, mon_pc>>

\* ------------------------------------------------------------------ helpers
\* truncation toward zero, as the conversion of a double to int does
TruncDiv(a, b) == IF a >= 0 THEN a \div b ELSE -((-a) \div b)

\* the conversion with integer division: c * (9 / 5) + 32
toFahrenheit_intdiv(c) == c * 10 + 320

\* float toFahrenheit(int celcius), result in tenths
toFahrenheit(c) == c * 18 + 320

\* int toCelcius(float fahrenheit), argument in tenths
toCelcius(f) == TruncDiv(f - 320, 18)

\* the decimal value of a digit string, for a string whose value fits an int
RECURSIVE Value(_)
Value(s) == IF s = <<>> THEN 0
            ELSE 10 * Value(SubSeq(s, 1, Len(s) - 1)) + s[Len(s)]

\* the value of a digit string fits an int
RECURSIVE Fits(_)
Fits(s) == \/ s = <<>>
           \/ LET p == SubSeq(s, 1, Len(s) - 1)
              IN  Fits(p) /\ Value(p) <= (INT_MAX - s[Len(s)]) \div 10

\* the value of a digit string modulo 2^32, as <<high, low>> 16-bit halves
RECURSIVE Halves(_)
Halves(s) == IF s = <<>> THEN <<0, 0>>
             ELSE LET h == Halves(SubSeq(s, 1, Len(s) - 1))
                      lo == h[2] * 10 + s[Len(s)]
                  IN  <<(h[1] * 10 + lo \div 65536) % 65536, lo % 65536>>

\* that value read as a two's complement int
Wrapped(s) == LET h == Halves(s)
              IN  (IF h[1] >= 32768 THEN h[1] - 65536 ELSE h[1]) * 65536 + h[2]

\* atoi(input_str.c_str()): the set of results; a value that does not fit an
\* int is undefined behaviour (the C library clamps, other builds wrap)
atoi(s) == IF Fits(s) THEN {Value(s)} ELSE {INT_MAX, Wrapped(s)}

\* bool validate_input()
validate_input ==
    LET valid_temp_c == TEMP_MIN_C <= temp_min_c /\ temp_min_c <= temp_max_c
                        /\ temp_max_c <= TEMP_MAX_C
        valid_temp_f == TEMP_MIN_F * 10 <= temp_min_f /\ temp_min_f <= temp_max_f
                        /\ temp_max_f <= TEMP_MAX_F * 10
        valid_humidity == HUMIDITY_MIN <= humidity_min
                          /\ humidity_min <= humidity_max
                          /\ humidity_max <= HUMIDITY_MAX
    IN  valid_humidity /\ valid_temp_c /\ valid_temp_f

\* ----------------------------------------------------------------- initial
Init ==
    /\ mode = IDLE
    /\ unit = CELCIUS
    /\ input_stage = -1
    /\ input_len = -1
    /\ input_str = <<>>
    /\ input_modified = FALSE
    /\ temp_min_c = TEMP_MIN_C
    /\ temp_min_f = TEMP_MIN_F * 10
    /\ temp_max_c = TEMP_MAX_C
    /\ temp_max_f = TEMP_MAX_F * 10
    /\ humidity_min = HUMIDITY_MIN
    /\ humidity_max = HUMIDITY_MAX
    /\ celcius = 0
    /\ fahrenheit = 0
    /\ humidity = 0
    /\ lcd = "blank"
    /\ lcd_pc = "top"
    /\ current_stage = 0
    /\ mon_pc = "while"
    /\ changed = FALSE
    /\ entered = <<>>
    /\ sess_c = TRUE
    /\ typed = <<>>
    /\ ackd = FALSE
    /\ row = -1
    /\ main_pc = "scan"
    /\ queued = 0
    /\ batch = 0
    /\ since_kick = 0
    /\ shown = <<>>
    /\ toggled = <<>>

\* ------------------------------------------------------ interrupt handlers
\* Each handler is written for the value r of row at the moment the edge
\* arrives.  queue.call(flash, BOUNCE) only schedules an LED pulse.

\* the body shared by isr_c0, isr_c1 and isr_c2; digit is the string the
\* handler appends for row r (empty where no branch matches)
digit_isr(digit) ==
    /\ IF mode = INPUT /\ input_len < MAX_INPUT
       THEN /\ input_str' = input_str \o digit
            /\ input_len' = input_len + 1
            /\ input_modified' = TRUE
       ELSE UNCHANGED <<input_str, input_len, input_modified>>
    /\ typed' = IF mode = INPUT THEN typed \o digit ELSE typed
    /\ UNCHANGED <<mode, unit, input_stage, thresholds, reading, lcd,
                   lcd_pc, current_stage, mon_pc, changed, entered, sess_c,
                   ackd>>

\* the character isr_c0, isr_c1, isr_c2 append for row r
key_c0(r) == CASE r = 0 -> <<1>> [] r = 1 -> <<4>> [] r = 2 -> <<7>>
               [] OTHER -> <<>>
key_c1(r) == CASE r = 0 -> <<2>> [] r = 1 -> <<5>> [] r = 2 -> <<8>>
               [] r = 3 -> <<0>> [] OTHER -> <<>>
key_c2(r) == CASE r = 0 -> <<3>> [] r = 1 -> <<6>> [] r = 2 -> <<9>>
               [] OTHER -> <<>>

isr_c0(r) == digit_isr(key_c0(r))
isr_c1(r) == digit_isr(key_c1(r))
isr_c2(r) == digit_isr(key_c2(r))

\* the handler with a C key that selects Celsius instead of flipping the unit
isr_c3_celcius(r) ==
    /\ CASE r = 0 ->      \* key: A
              /\ input_stage' = IF input_stage # -1 THEN input_stage + 1
                                ELSE input_stage
              /\ typed' = IF input_stage # -1 THEN <<>> ELSE typed
              /\ UNCHANGED <<mode, unit, input_len, input_str, input_modified,
                             ackd>>
         [] r = 1 ->      \* key: B
              /\ mode' = IF mode # INPUT THEN IDLE ELSE mode
              /\ ackd' = IF mode = ALERT THEN TRUE ELSE ackd
              /\ UNCHANGED <<unit, input_stage, input_len, input_str,
                             input_modified, typed>>
         [] r = 2 ->      \* key: C
              IF mode = INPUT
              THEN /\ input_str' = <<>>
                   /\ input_len' = 0
                   /\ input_modified' = TRUE
                   /\ typed' = <<>>
                   /\ UNCHANGED <<mode, unit, input_stage, ackd>>
              ELSE /\ unit' = CELCIUS
                   /\ UNCHANGED <<mode, input_stage, input_len, input_str,
                                  input_modified, typed, ackd>>
         [] r = 3 ->      \* key: D
              /\ mode' = INPUT
              /\ typed' = IF mode # INPUT THEN <<>> ELSE typed
              /\ ackd' = FALSE
              /\ UNCHANGED <<unit, input_stage, input_len, input_str,
                             input_modified>>
         [] OTHER ->
              UNCHANGED <<mode, unit, input_stage, input_len, input_str,
                          input_modified, typed, ackd>>
    /\ UNCHANGED <<thresholds, reading, lcd, lcd_pc, current_stage,
                   mon_pc, changed, entered, sess_c>>

\* void isr_c3(), for the value r of row
isr_c3(r) ==
    /\ CASE r = 0 ->      \* key: A
              /\ input_stage' = IF input_stage # -1 THEN input_stage + 1
                                ELSE input_stage
              /\ typed' = IF input_stage # -1 THEN <<>> ELSE typed
              /\ UNCHANGED <<mode, unit, input_len, input_str, input_modified,
                             ackd>>
         [] r = 1 ->      \* key: B
              /\ mode' = IF mode # INPUT THEN IDLE ELSE mode
              /\ ackd' = IF mode = ALERT THEN TRUE ELSE ackd
              /\ UNCHANGED <<unit, input_stage, input_len, input_str,
                             input_modified, typed>>
         [] r = 2 ->      \* key: C
              IF mode = INPUT
              THEN /\ input_str' = <<>>
                   /\ input_len' = 0
                   /\ input_modified' = TRUE
                   /\ typed' = <<>>
                   /\ UNCHANGED <<mode, unit, input_stage, ackd>>
              ELSE /\ unit' = ~unit
                   /\ UNCHANGED <<mode, input_stage, input_len, input_str,
                                  input_modified, typed, ackd>>
         [] r = 3 ->      \* key: D
              /\ mode' = INPUT
              /\ typed' = IF mode # INPUT THEN <<>> ELSE typed
              /\ ackd' = FALSE
              /\ UNCHANGED <<unit, input_stage, input_len, input_str,
                             input_modified>>
         [] OTHER ->
              UNCHANGED <<mode, unit, input_stage, input_len, input_str,
                          input_modified, typed, ackd>>
    /\ UNCHANGED <<thresholds, reading, lcd, lcd_pc, current_stage,
                   mon_pc, changed, entered, sess_c>>

\* ------------------------------------------------------------- environment
\* The scan loop of main() energizes the rows in turn; a key of Keys that
\* is held closes the circuit when its row r is reached, at which moment
\* row = r and the handler of its column runs.

\* an A press has ended the prompt that the display thread still collects
APending ==
    /\ lcd_pc \in {"prompt", "len", "collect", "render", "flag", "store"}
    /\ input_stage > current_stage

\* the operator types entries of e.entries while no A press is pending, and
\* presses * or # at most once while an entry is open
Room(e, digit) ==
    mode = INPUT =>
        /\ ~APending
        /\ IF digit = <<>> THEN input_len <= Len(input_str)
           ELSE typed \o digit \in e.entries /\ input_str \o digit \in e.entries

\* the operator confirms entries of Confirmed
Confirm ==
    input_stage < MaxStage /\ typed \in Confirmed /\ input_str \in Confirmed

\* c0.rise(&isr_c0) .. c3.rise(&isr_c3), with the row scan of main()
c0_rise(e) == \E r \in 0..3 : /\ <<r, 0>> \in e.keys
                              /\ Room(e, key_c0(r))
                              /\ isr_c0(r)
c1_rise(e) == \E r \in 0..3 : /\ <<r, 1>> \in e.keys
                              /\ Room(e, key_c1(r))
                              /\ isr_c1(r)
c2_rise(e) == \E r \in 0..3 : /\ <<r, 2>> \in e.keys
                              /\ Room(e, key_c2(r))
                              /\ isr_c2(r)
c3_rise(e) == \E r \in 0..3 : /\ <<r, 3>> \in e.keys
                              /\ (r = 0 => Confirm)
                              /\ isr_c3(r)

\* void update_sensor(), the sensor returning r
update_sensor(r) ==
    /\ celcius' = r[1]
    /\ fahrenheit' = toFahrenheit(r[1])
    /\ humidity' = r[2]

\* ----------------------------------------------------------- display thread
\* while (true): the test of mode; entering the INPUT branch sets
\* input_stage = 0 and starts the for loop
lcd_top ==
    /\ lcd_pc = "top"
    /\ \/ /\ mode = MONITOR \/ mode = IDLE
          /\ lcd_pc' = "show"
          /\ UNCHANGED <<input_stage, current_stage, changed, entered, sess_c>>
       \/ /\ mode = INPUT
          /\ input_stage' = 0
          /\ current_stage' = 0
          /\ lcd_pc' = "prompt"
          /\ changed' = FALSE
          /\ entered' = <<>>
          /\ sess_c' = TRUE
    /\ UNCHANGED <<mode, unit, input_len, input_str,
                   input_modified, thresholds, reading, lcd, mon_pc, typed,
                   ackd>>

\* the MONITOR/IDLE branch: clear, read the sensor, print, sleep one second
lcd_show(e) ==
    /\ lcd_pc = "show"
    /\ \E r \in e.readings : update_sensor(r)
    /\ lcd' = "climate"
    /\ lcd_pc' = "top"
    /\ UNCHANGED <<mode, unit, session, thresholds,
                   current_stage, mon_pc, hist>>

\* get_input: print_prompt(prompt); input_str = "";
lcd_prompt ==
    /\ lcd_pc = "prompt"
    /\ lcd' = "prompt"
    /\ input_str' = <<>>
    /\ lcd_pc' = "len"
    /\ UNCHANGED <<mode, unit, input_stage, input_len,
                   input_modified, thresholds, reading, current_stage, mon_pc,
                   hist>>

\* get_input: input_len = 0;
lcd_len ==
    /\ lcd_pc = "len"
    /\ input_len' = 0
    /\ lcd_pc' = "collect"
    /\ UNCHANGED <<mode, unit, input_stage, input_str,
                   input_modified, thresholds, reading, lcd, current_stage,
                   mon_pc, hist>>

\* get_input: while (input_stage <= current_stage) { if (input_modified) ..
lcd_collect ==
    /\ lcd_pc = "collect"
    /\ IF input_stage <= current_stage
       THEN input_modified /\ lcd_pc' = "render"
       ELSE lcd_pc' = "store"
    /\ UNCHANGED <<mode, unit, session, thresholds, reading, lcd,
                   current_stage, mon_pc, hist>>

\* get_input: print_prompt(prompt); lcd.print(input_str.c_str());
lcd_render ==
    /\ lcd_pc = "render"
    /\ lcd' = "prompt"
    /\ lcd_pc' = "flag"
    /\ UNCHANGED <<mode, unit, session, thresholds, reading,
                   current_stage, mon_pc, hist>>

\* get_input: input_modified = false;
lcd_flag ==
    /\ lcd_pc = "flag"
    /\ input_modified' = FALSE
    /\ lcd_pc' = "collect"
    /\ UNCHANGED <<mode, unit, input_stage, input_len, input_str,
                   thresholds, reading, lcd, current_stage, mon_pc, hist>>

\* a copy-and-paste slip: both humidity prompts stored in humidity_min
store_slip(stage, v) ==
    CASE stage = 0 ->
           /\ IF unit = CELCIUS
              THEN /\ temp_min_c' = v
                   /\ temp_min_f' = toFahrenheit(v)
              ELSE /\ temp_min_f' = v * 10
                   /\ temp_min_c' = toCelcius(v * 10)
           /\ UNCHANGED <<temp_max_c, temp_max_f, humidity_min, humidity_max>>
      [] stage = 1 ->
           /\ IF unit = CELCIUS
              THEN /\ temp_max_c' = v
                   /\ temp_max_f' = toFahrenheit(v)
              ELSE /\ temp_max_f' = v * 10
                   /\ temp_max_c' = toCelcius(v * 10)
           /\ UNCHANGED <<temp_min_c, temp_min_f, humidity_min, humidity_max>>
      [] stage \in {2, 3} ->
           /\ humidity_min' = v
           /\ UNCHANGED <<temp_min_c, temp_min_f, temp_max_c, temp_max_f,
                          humidity_max>>

\* the if / else if chain in the for loop of update_lcd: the value v parsed
\* from the buffer is stored in the field of the stage
store(stage, v) ==
    CASE stage = 0 ->
           /\ IF unit = CELCIUS
              THEN /\ temp_min_c' = v
                   /\ temp_min_f' = toFahrenheit(v)
              ELSE /\ temp_min_f' = v * 10
                   /\ temp_min_c' = toCelcius(v * 10)
           /\ UNCHANGED <<temp_max_c, temp_max_f, humidity_min, humidity_max>>
      [] stage = 1 ->
           /\ IF unit = CELCIUS
              THEN /\ temp_max_c' = v
                   /\ temp_max_f' = toFahrenheit(v)
              ELSE /\ temp_max_f' = v * 10
                   /\ temp_max_c' = toCelcius(v * 10)
           /\ UNCHANGED <<temp_min_c, temp_min_f, humidity_min, humidity_max>>
      [] stage = 2 ->
           /\ humidity_min' = v
           /\ UNCHANGED <<temp_min_c, temp_min_f, temp_max_c, temp_max_f,
                          humidity_max>>
      [] stage = 3 ->
           /\ humidity_max' = v
           /\ UNCHANGED <<temp_min_c, temp_min_f, temp_max_c, temp_max_f,
                          humidity_min>>

\* the body of the for loop after get_input returns: the buffer is parsed
\* and stored, and the loop moves on to the next stage
lcd_store ==
    /\ lcd_pc = "store"
    /\ \E v \in atoi(input_str) :
         /\ store(current_stage, v)
         /\ entered' = Append(entered, v)
    /\ changed' = (changed \/ thresholds' # thresholds)
    /\ sess_c' = (sess_c /\ (current_stage \in {0, 1} => unit = CELCIUS))
    /\ IF current_stage < 3
       THEN current_stage' = current_stage + 1 /\ lcd_pc' = "prompt"
       ELSE current_stage' = current_stage /\ lcd_pc' = "finish"
    /\ UNCHANGED <<mode, unit, session, reading, lcd, mon_pc, typed, ackd>>

\* input_stage = -1;
lcd_finish ==
    /\ lcd_pc = "finish"
    /\ input_stage' = -1
    /\ lcd_pc' = "validate"
    /\ UNCHANGED <<mode, unit, input_len, input_str,
                   input_modified, thresholds, reading, lcd, current_stage,
                   mon_pc, hist>>

\* if (validate_input()) { mode = MONITOR; } else { "Invalid Input" .. }
lcd_validate ==
    /\ lcd_pc = "validate"
    /\ IF validate_input
       THEN /\ mode' = MONITOR
            /\ lcd_pc' = "top"
            /\ changed' = FALSE
            /\ entered' = <<>>
            /\ sess_c' = TRUE
            /\ UNCHANGED lcd
       ELSE /\ lcd' = "invalid"
            /\ lcd_pc' = "notice"
            /\ UNCHANGED <<mode, changed, entered, sess_c>>
    /\ typed' = <<>>
    /\ UNCHANGED <<unit, session, thresholds, reading,
                   current_stage, mon_pc, ackd>>

\* the notice followed by a return to IDLE
lcd_notice_idle ==
    /\ lcd_pc = "notice"
    /\ lcd_pc' = "top"
    /\ mode' = IDLE
    /\ changed' = FALSE
    /\ entered' = <<>>
    /\ sess_c' = TRUE
    /\ UNCHANGED <<unit, session, thresholds, reading, lcd, current_stage,
                   mon_pc, typed, ackd>>

\* thread_sleep_for(3000) returns and the while (true) loop starts over
lcd_notice ==
    /\ lcd_pc = "notice"
    /\ lcd_pc' = "top"
    /\ changed' = FALSE
    /\ entered' = <<>>
    /\ sess_c' = TRUE
    /\ UNCHANGED <<prog_but_lcd_pc, typed, ackd>>

update_lcd(e) ==
    \/ lcd_top \/ lcd_show(e) \/ lcd_prompt \/ lcd_len \/ lcd_collect
    \/ lcd_render \/ lcd_flag \/ lcd_store \/ lcd_finish \/ lcd_validate
    \/ lcd_notice

\* ----------------------------------------------------------- monitor thread
\* the chain with the humidity comparisons ahead of the temperature ones
breach_humidity_first ==
    IF humidity < humidity_min
    THEN "Humidity Too Low"
    ELSE IF humidity > humidity_max
    THEN "Humidity Too High"
    ELSE IF (unit = FAHRENHEIT /\ fahrenheit < temp_min_f)
            \/ (unit = CELCIUS /\ celcius < temp_min_c)
    THEN "Temperature Too Low"
    ELSE IF (unit = FAHRENHEIT /\ fahrenheit > temp_max_f)
            \/ (unit = CELCIUS /\ celcius > temp_max_c)
    THEN "Temperature Too High"
    ELSE "none"

\* the if / else if chain of monitor_state: the text it prints before it
\* calls alert(), "none" when no branch is taken
breach ==
    IF (unit = FAHRENHEIT /\ fahrenheit < temp_min_f)
       \/ (unit = CELCIUS /\ celcius < temp_min_c)
    THEN "Temperature Too Low"
    ELSE IF (unit = FAHRENHEIT /\ fahrenheit > temp_max_f)
            \/ (unit = CELCIUS /\ celcius > temp_max_c)
    THEN "Temperature Too High"
    ELSE IF humidity < humidity_min
    THEN "Humidity Too Low"
    ELSE IF humidity > humidity_max
    THEN "Humidity Too High"
    ELSE "none"

\* while (mode == MONITOR)
mon_while ==
    /\ mon_pc = "while"
    /\ mode = MONITOR
    /\ mon_pc' = "sense"
    /\ UNCHANGED <<mode, unit, session, thresholds, reading, lcd,
                   lcd_pc, current_stage, hist>>

\* update_sensor();
mon_sense(e) ==
    /\ mon_pc = "sense"
    /\ \E r \in e.readings : update_sensor(r)
    /\ mon_pc' = "check"
    /\ UNCHANGED <<mode, unit, session, thresholds, lcd, lcd_pc,
                   current_stage, hist>>

\* the comparisons; a branch that is taken clears the display and prints
\* its reason
mon_check ==
    /\ mon_pc = "check"
    /\ IF breach # "none"
       THEN lcd' = breach /\ mon_pc' = "alert"
       ELSE lcd' = lcd /\ mon_pc' = "while"
    /\ UNCHANGED <<mode, unit, session, thresholds, reading,
                   lcd_pc, current_stage, hist>>

\* alert(): mode = ALERT;
mon_alert ==
    /\ mon_pc = "alert"
    /\ mode' = ALERT
    /\ mon_pc' = "beep"
    /\ UNCHANGED <<unit, session, thresholds, reading, lcd,
                   lcd_pc, current_stage, hist>>

\* alert(): while (mode == ALERT) { beep_and_flash; sleep } ends once mode
\* is no longer ALERT
mon_beep ==
    /\ mon_pc = "beep"
    /\ mode # ALERT
    /\ mon_pc' = "while"
    /\ UNCHANGED <<mode, unit, session, thresholds, reading, lcd,
                   lcd_pc, current_stage, hist>>

monitor_state(e) == mon_while \/ mon_sense(e) \/ mon_check \/ mon_alert \/ mon_beep

\* ------------------------------------------------------------ specification
\* Threads(e) is a step of a handler or of one of the two threads.  In the
\* specifications built on Next the scan loop is not stepped: a key press
\* stands for the loop reaching the row of the key, and the history
\* variables shown and toggled are not recorded.
Threads(e) ==
    \/ c0_rise(e) \/ c1_rise(e) \/ c2_rise(e) \/ c3_rise(e)
    \/ update_lcd(e)
    \/ monitor_state(e)

Aside == UNCHANGED <<scan, shown, toggled>>

Next(e) ==
    \/ c0_rise(e) /\ Aside
    \/ c1_rise(e) /\ Aside
    \/ c2_rise(e) /\ Aside
    \/ c3_rise(e) /\ Aside
    \/ lcd_top /\ Aside
    \/ lcd_show(e) /\ Aside
    \/ lcd_prompt /\ Aside
    \/ lcd_len /\ Aside
    \/ lcd_collect /\ Aside
    \/ lcd_render /\ Aside
    \/ lcd_flag /\ Aside
    \/ lcd_store /\ Aside
    \/ lcd_finish /\ Aside
    \/ lcd_validate /\ Aside
    \/ lcd_notice /\ Aside
    \/ mon_while /\ Aside
    \/ mon_sense(e) /\ Aside
    \/ mon_check /\ Aside
    \/ mon_alert /\ Aside
    \/ mon_beep /\ Aside

NextMain == Next(EnvMain)

Spec == Init /\ [][NextMain]_vars

\* The operator of EnvFill: long entries at the prompts.
NextFill == Next(EnvFill)

SpecFill == Init /\ [][NextFill]_vars

\* The operator of EnvClear: the C key at the prompts and outside them.
NextClear == Next(EnvClear)

SpecClear == Init /\ [][NextClear]_vars

\* -------------------------------------------------------------- scan loop
\* queue.call(flash, BOUNCE) at the end of a handler: one more call waits
\* in the queue, unless the queue has no room for it
queue_call ==
    queued' = IF queued + batch < QueueSlots THEN queued + 1 ELSE queued

\* a rising edge on a column while the scan loop energizes row: the handler
\* of the column runs with that value of row
edge_c0 ==
    /\ row \in 0..3 /\ <<row, 0>> \in EnvScan.keys
    /\ Room(EnvScan, key_c0(row))
    /\ isr_c0(row) /\ queue_call
    /\ UNCHANGED <<row, main_pc, batch, since_kick, shown, toggled>>
edge_c1 ==
    /\ row \in 0..3 /\ <<row, 1>> \in EnvScan.keys
    /\ Room(EnvScan, key_c1(row))
    /\ isr_c1(row) /\ queue_call
    /\ UNCHANGED <<row, main_pc, batch, since_kick, shown, toggled>>
edge_c2 ==
    /\ row \in 0..3 /\ <<row, 2>> \in EnvScan.keys
    /\ Room(EnvScan, key_c2(row))
    /\ isr_c2(row) /\ queue_call
    /\ UNCHANGED <<row, main_pc, batch, since_kick, shown, toggled>>
edge_c3 ==
    /\ row \in 0..3 /\ <<row, 3>> \in EnvScan.keys
    /\ (row = 0 => Confirm)
    /\ isr_c3(row) /\ queue_call
    /\ UNCHANGED <<row, main_pc, batch, since_kick, shown, toggled>>

\* GPIOF->ODR &= 0x0; row++; if (row > 3) { row = 0; } and the row is
\* energized
main_scan ==
    /\ main_pc = "scan"
    /\ row' = IF row + 1 > 3 THEN 0 ELSE row + 1
    /\ main_pc' = "kick"
    /\ UNCHANGED <<prog, hist, queued, batch, since_kick, shown, toggled>>

\* watchdog.kick();
main_kick ==
    /\ main_pc = "kick"
    /\ since_kick' = 0
    /\ main_pc' = "dispatch"
    /\ UNCHANGED <<prog, hist, row, queued, batch, shown, toggled>>

\* queue.dispatch_once(): the calls that wait at this moment are taken off
\* the queue, to be made one after the other before dispatch_once returns
main_dispatch ==
    /\ main_pc = "dispatch"
    /\ batch' = queued
    /\ queued' = 0
    /\ main_pc' = IF queued > 0 THEN "flash" ELSE "scan"
    /\ UNCHANGED <<prog, hist, row, since_kick, shown, toggled>>

\* void flash(BOUNCE), made by the dispatch: the LED is lit and the scan
\* loop sleeps BOUNCE milliseconds
flash ==
    /\ main_pc = "flash"
    /\ since_kick < TIMEOUT_MS
    /\ since_kick' = since_kick + BOUNCE
    /\ batch' = batch - 1
    /\ main_pc' = IF batch > 1 THEN "flash" ELSE "scan"
    /\ UNCHANGED <<prog, hist, row, queued, shown, toggled>>

\* watchdog.start(TIMEOUT_MS): TIMEOUT_MS milliseconds without a kick
\* reset the board, and the program starts over
watchdog_reset ==
    /\ since_kick >= TIMEOUT_MS
    /\ mode' = IDLE
    /\ unit' = CELCIUS
    /\ input_stage' = -1
    /\ input_len' = -1
    /\ input_str' = <<>>
    /\ input_modified' = FALSE
    /\ temp_min_c' = TEMP_MIN_C
    /\ temp_min_f' = TEMP_MIN_F * 10
    /\ temp_max_c' = TEMP_MAX_C
    /\ temp_max_f' = TEMP_MAX_F * 10
    /\ humidity_min' = HUMIDITY_MIN
    /\ humidity_max' = HUMIDITY_MAX
    /\ celcius' = 0
    /\ fahrenheit' = 0
    /\ humidity' = 0
    /\ lcd' = "blank"
    /\ lcd_pc' = "top"
    /\ current_stage' = 0
    /\ mon_pc' = "while"
    /\ changed' = FALSE
    /\ entered' = <<>>
    /\ sess_c' = TRUE
    /\ typed' = <<>>
    /\ ackd' = FALSE
    /\ row' = -1
    /\ main_pc' = "scan"
    /\ queued' = 0
    /\ batch' = 0
    /\ since_kick' = 0
    /\ shown' = <<>>
    /\ toggled' = <<>>

\* The scan loop with the handlers; the display and the monitor thread are
\* not stepped.
NextScan ==
    \/ edge_c0 \/ edge_c1 \/ edge_c2 \/ edge_c3
    \/ main_scan \/ main_kick \/ main_dispatch \/ flash
    \/ watchdog_reset

SpecScan == Init /\ [][NextScan]_vars

\* shown is what stands under the prompt: nothing once print_prompt has run
\* at the start of get_input, the buffer as it was read once the loop has
\* printed it
Render ==
    shown' = IF lcd_pc = "render" /\ lcd_pc' = "flag" THEN input_str
             ELSE IF lcd_pc = "prompt" /\ lcd_pc' = "len" THEN <<>>
             ELSE shown

\* The handlers and the display thread, with what the display shows under
\* the prompt recorded; the monitor thread is not stepped.
NextRender ==
    \/ c0_rise(EnvRender) /\ Render /\ UNCHANGED <<scan, toggled>>
    \/ c1_rise(EnvRender) /\ Render /\ UNCHANGED <<scan, toggled>>
    \/ c2_rise(EnvRender) /\ Render /\ UNCHANGED <<scan, toggled>>
    \/ c3_rise(EnvRender) /\ Render /\ UNCHANGED <<scan, toggled>>
    \/ lcd_top /\ Render /\ UNCHANGED <<scan, toggled>>
    \/ lcd_show(EnvRender) /\ Render /\ UNCHANGED <<scan, toggled>>
    \/ lcd_prompt /\ Render /\ UNCHANGED <<scan, toggled>>
    \/ lcd_len /\ Render /\ UNCHANGED <<scan, toggled>>
    \/ lcd_collect /\ Render /\ UNCHANGED <<scan, toggled>>
    \/ lcd_render /\ Render /\ UNCHANGED <<scan, toggled>>
    \/ lcd_flag /\ Render /\ UNCHANGED <<scan, toggled>>
    \/ lcd_store /\ Render /\ UNCHANGED <<scan, toggled>>
    \/ lcd_finish /\ Render /\ UNCHANGED <<scan, toggled>>
    \/ lcd_validate /\ Render /\ UNCHANGED <<scan, toggled>>
    \/ lcd_notice /\ Render /\ UNCHANGED <<scan, toggled>>

SpecRender == Init /\ [][NextRender]_vars

\* The monitor thread alone, started in the state that a session entered
\* right after power-up and validated leaves behind: the session was typed
\* in the unit u with the temperature bounds lo, hi and the humidity bounds
\* hl, hh, the display thread has not read the sensor yet and rests after
\* its validation step.
InitBreach ==
    \E u \in BOOLEAN :
    \E lo, hi \in (IF u = CELCIUS THEN SessionC ELSE SessionF) :
    \E hl, hh \in SessionH :
        /\ lo <= hi /\ hl <= hh
        /\ mode = MONITOR
        /\ unit = u
        /\ input_stage = -1
        /\ input_len = 2
        /\ input_str = <<hh \div 10, hh % 10>>
        /\ input_modified = FALSE
        /\ temp_min_c = IF u = CELCIUS THEN lo ELSE toCelcius(lo * 10)
        /\ temp_min_f = IF u = CELCIUS THEN toFahrenheit(lo) ELSE lo * 10
        /\ temp_max_c = IF u = CELCIUS THEN hi ELSE toCelcius(hi * 10)
        /\ temp_max_f = IF u = CELCIUS THEN toFahrenheit(hi) ELSE hi * 10
        /\ humidity_min = hl
        /\ humidity_max = hh
        /\ celcius = 0
        /\ fahrenheit = 0
        /\ humidity = 0
        /\ lcd = "prompt"
        /\ lcd_pc = "top"
        /\ current_stage = 3
        /\ mon_pc = "while"
        /\ changed = FALSE
        /\ entered = <<>>
        /\ sess_c = TRUE
        /\ typed = <<>>
        /\ ackd = FALSE
        /\ row = -1
        /\ main_pc = "scan"
        /\ queued = 0
        /\ batch = 0
        /\ since_kick = 0
        /\ shown = <<>>
        /\ toggled = <<>>

\* toggled is <<unit, thresholds>> of the state before a step that changed
\* the unit, and empty after any other step
Toggle ==
    toggled' = IF unit' # unit THEN <<unit, thresholds>> ELSE <<>>

NextBreach ==
    \/ c3_rise(EnvBreach) /\ Toggle /\ UNCHANGED <<scan, shown>>
    \/ mon_while /\ Toggle /\ UNCHANGED <<scan, shown>>
    \/ mon_sense(EnvBreach) /\ Toggle /\ UNCHANGED <<scan, shown>>
    \/ mon_check /\ Toggle /\ UNCHANGED <<scan, shown>>
    \/ mon_alert /\ Toggle /\ UNCHANGED <<scan, shown>>
    \/ mon_beep /\ Toggle /\ UNCHANGED <<scan, shown>>

SpecBreach == InitBreach /\ [][NextBreach]_vars

\* ------------------------------------------------------------------ claims

C3_ValidCelsiusSession ==
    [][(/\ lcd_pc = "validate" /\ lcd_pc' # "validate"
        /\ Len(entered) = 4
        /\ sess_c
        /\ 0 <= entered[1] /\ entered[1] <= entered[2] /\ entered[2] <= 50
        /\ 20 <= entered[3] /\ entered[3] <= entered[4] /\ entered[4] <= 95)
       => /\ mode' = MONITOR
          /\ temp_min_c' = entered[1]
          /\ temp_max_c' = entered[2]
          /\ humidity_min' = entered[3]
          /\ humidity_max' = entered[4]
          /\ 10 * temp_min_f' = 18 * 10 * entered[1] + 3200
          /\ 10 * temp_max_f' = 18 * 10 * entered[2] + 3200
      ]_vars

\* the session 0, 40, 40, 40 has been validated (40 C is 104 F)
C3_Witness ==
    /\ mode = MONITOR
    /\ lcd_pc = "top"
    /\ temp_min_c = 0 /\ temp_max_c = 40
    /\ temp_min_f = 320 /\ temp_max_f = 1040
    /\ humidity_min = 40 /\ humidity_max = 40

\* C6: while a prompt is being collected, the buffer is the concatenation,
\* in arrival order, of the digits delivered while Mode was INPUT since the
\* entry began (the last D press that entered INPUT, A press or C press),
\* for up to 9 such digits.
C6_BufferIsTyped ==
    (/\ mode = INPUT
     /\ lcd_pc \in {"collect", "render", "flag"}
     /\ input_stage = current_stage
     /\ Len(typed) <= MAX_INPUT)
    => input_str = typed

\* C7: once B has been pressed in ALERT, Mode is IDLE until D is pressed.
C7_AcknowledgedStaysIdle == ackd => mode = IDLE

\* C8: a D press in IDLE, MONITOR or ALERT sets Mode to INPUT and resets the
\* session to stage 0 with an empty buffer.
C8_DStartsFreshSession ==
    [][(mode # INPUT /\ isr_c3(3))
       => (mode' = INPUT /\ input_stage' = 0 /\ input_str' = <<>>)]_vars

\* C9: every step that takes Mode out of ALERT is a B press (to IDLE) or a D
\* press (to INPUT).
C9_OnlyKeysLeaveAlert ==
    [][(mode = ALERT /\ mode' # ALERT)
       => \/ isr_c3(1) /\ mode' = IDLE
          \/ isr_c3(3) /\ mode' = INPUT]_vars

\* the transitions of Mode listed in the mode state machine
ListedTransitions ==
    {<<IDLE, INPUT>>, <<INPUT, MONITOR>>, <<INPUT, IDLE>>, <<MONITOR, ALERT>>,
     <<MONITOR, IDLE>>, <<MONITOR, INPUT>>, <<ALERT, IDLE>>, <<ALERT, INPUT>>}

\* C10: Mode starts as IDLE and every change of Mode is a listed transition;
\* in particular Mode becomes ALERT only from MONITOR.
C10_ListedTransitionsOnly ==
    /\ mode = IDLE
    /\ [][mode' # mode => <<mode, mode'>> \in ListedTransitions]_vars

\* the four breach conditions for the selected unit, in the order low
\* temperature, high temperature, low humidity, high humidity
Conds ==
    <<IF unit = CELCIUS THEN celcius < temp_min_c ELSE fahrenheit < temp_min_f,
      IF unit = CELCIUS THEN celcius > temp_max_c ELSE fahrenheit > temp_max_f,
      humidity < humidity_min,
      humidity > humidity_max>>
Reasons == <<"Temperature Too Low", "Temperature Too High",
             "Humidity Too Low", "Humidity Too High">>
Holding == {i \in 1..4 : Conds[i]}

\* C4: when the monitor thread compares a reading in MONITOR, it goes on to
\* alert() exactly when one of the four conditions holds, the reason it
\* prints is that of the first condition that holds, and alert() sets Mode
\* to ALERT; when none holds it leaves Mode and the display alone.
C4_FirstBreachReported ==
    [][/\ (mon_pc = "check" /\ mon_pc' # "check" /\ mode = MONITOR) =>
              IF Holding = {}
              THEN mon_pc' = "while" /\ mode' = MONITOR /\ lcd' = lcd
              ELSE /\ mon_pc' = "alert"
                   /\ lcd' = Reasons[CHOOSE i \in Holding :
                                        \A j \in Holding : i <= j]
       /\ (mon_pc = "alert" /\ mon_pc' # "alert") => mode' = ALERT
      ]_vars

\* thresholds [10, 40] C and [30, 80] %, reading 45 C and 90 %: both the
\* temperature and the humidity are too high, the temperature is reported
C4_Witness ==
    /\ mode = ALERT
    /\ unit = CELCIUS
    /\ temp_min_c = 10 /\ temp_max_c = 40
    /\ humidity_min = 30 /\ humidity_max = 80
    /\ celcius = 45 /\ humidity = 90
    /\ lcd = "Temperature Too High"

\* C5: the buffer never holds more than MAX_INPUT characters.
C5_BufferAtMostMaxInput == Len(input_str) <= MAX_INPUT

\* C11: whenever Mode is MONITOR the thresholds satisfy the three conditions
\* of validation, and whenever the monitor thread compares a reading the
\* thresholds it reads satisfy them.
C11_MonitorsValidatedThresholds ==
    /\ [](mode = MONITOR => validate_input)
    /\ [][(mon_pc = "check" /\ mon_pc' # "check") => validate_input]_vars

\* C12: a C press handled while Mode is not INPUT flips the unit and leaves
\* Mode, the thresholds and the input session as they are; when the step
\* before it was such a press too, the unit and the thresholds are again
\* what they were before the first of the two.
C12_ToggleOutsideInput ==
    [][(isr_c3(2) /\ mode # INPUT) =>
          /\ unit' = ~unit
          /\ UNCHANGED <<mode, thresholds, session>>
          /\ toggled # <<>> => unit' = toggled[1] /\ thresholds' = toggled[2]
      ]_vars

\* two presses in a row have been handled in ALERT, after one in MONITOR
C12_Witness ==
    /\ mode = ALERT
    /\ toggled = <<FAHRENHEIT, thresholds>>
    /\ unit = CELCIUS

\* C13: a C press handled while Mode is INPUT empties the buffer, zeroes its
\* length and sets the dirty flag, and leaves the unit, the stage, Mode and
\* the thresholds as they are; and from the first prompt of a session to
\* the store of its last value no step changes the unit.
C13_ClearKeepsUnit ==
    [][/\ (isr_c3(2) /\ mode = INPUT) =>
              /\ input_str' = <<>> /\ input_len' = 0 /\ input_modified'
              /\ UNCHANGED <<unit, input_stage, mode, thresholds>>
       /\ lcd_pc \in {"prompt", "len", "collect", "render", "flag", "store"}
              => unit' = unit
      ]_vars

\* C14: the scan loop never stays away from watchdog.kick() for TIMEOUT_MS
\* milliseconds or more.
C14_WatchdogKicked == since_kick < TIMEOUT_MS

\* C15: a press of * (row 3, column 0) or # (row 3, column 2) leaves Mode,
\* the unit, the buffer, its length counter, the dirty flag, the stage and
\* the thresholds as they are.
C15_UnassignedKeysIdle ==
    [][(isr_c0(3) \/ isr_c2(3)) =>
          UNCHANGED <<mode, unit, input_str, input_len, input_modified,
                      input_stage, thresholds>>]_vars

\* C16: while the display thread is in the loop of get_input and the dirty
\* flag is false, what stands under the prompt is the buffer.
C16_CleanMeansRendered ==
    (lcd_pc \in {"collect", "render", "flag"} /\ ~input_modified)
        => shown = input_str

\* C17: a step of the display thread taken while Mode is ALERT leaves the
\* display as it is.
C17_DisplayQuietInAlert ==
    [][(mode = ALERT /\ lcd_pc' # lcd_pc) => lcd' = lcd]_vars

\* C18: the stage is always one of -1, 0, 1, 2, 3.
C18_StageInRange == input_stage \in -1..3

\* C19: a stage of 0 or more is found only while Mode is INPUT.
C19_SessionOnlyInInput == input_stage >= 0 => mode = INPUT

\* C20: when the display thread starts a prompt (before it has printed it
\* and cleared the buffer) no A press has yet moved the stage past it.
C20_PromptEndedByOwnPress ==
    lcd_pc \in {"prompt", "len"} => input_stage <= current_stage

\* C21: the length counter is the number of characters in the buffer.
C21_LengthIsCount == input_len = Len(input_str)

====
